---------------------------- MODULE Spec2Model ----------------------------
(***************************************************************************)
(* Model of flask_parameter_validation/parameter_validation.py:            *)
(* the ValidateParameters decorator (nested_func, the validation session)  *)
(* and ValidateParameters.validate (the per-parameter engine).             *)
(*                                                                         *)
(* Python values are records [t |-> runtime type name, v |-> payload];     *)
(* a str is a sequence of one-character strings, a list a sequence of      *)
(* values.  Annotations are records [k, name, args].  str(annotation) is   *)
(* modelled by its prefix as CPython 3.9+ prints it: a two-member union    *)
(* with NoneType prints as "typing.Optional[...]".                         *)
(***************************************************************************)
EXTENDS Integers, Sequences, FiniteSets, TLC

(* ------------------------------ bounds --------------------------------- *)
MaxParams == 2
MaxListLen == 2

(* --------------------------- python values ----------------------------- *)
NoneV == [t |-> "NoneType", v |-> 0]
Missing == [t |-> "missing", v |-> 0]
IntV(n) == [t |-> "int", v |-> n]
FloatV(n) == [t |-> "float", v |-> n]
BoolV(b) == [t |-> "bool", v |-> b]
StrV(cs) == [t |-> "str", v |-> cs]
ListV(xs) == [t |-> "list", v |-> xs]

TypeOf(x) == x.t

(* ----------------------------- annotations ----------------------------- *)
Plain(n) == [k |-> "plain", name |-> n, args |-> <<>>]
AnyT == [k |-> "any", name |-> "Any", args |-> <<>>]
ListOf(as) == [k |-> "list", name |-> "List", args |-> as]
UnionOf(as) == [k |-> "union", name |-> "Union", args |-> as]
NoneT == Plain("NoneType")
OptionalOf(a) == UnionOf(<<a, NoneT>>)
NoAnn == [k |-> "none", name |-> "", args |-> <<>>]

Range(s) == {s[i] : i \in DOMAIN s}

\* str(annotation), up to the prefix the code tests with startswith
TypeStrPrefix(a) ==
  CASE a.k = "any" -> "typing.Any"
    [] a.k = "list" -> "typing.List"
    [] a.k = "union" -> IF Len(a.args) = 2 /\ NoneT \in Range(a.args)
                        THEN "typing.Optional" ELSE "typing.Union"
    [] OTHER -> "<class"

\* hasattr(annotation, "__args__")
HasArgs(a) == a.k \in {"list", "union"}

\* type(x) in types: the class of x is one of the members of the tuple
TypeIn(x, types) == Plain(TypeOf(x)) \in Range(types)


(* ----------------- source bindings (parameter_types) ------------------- *)
\* The keys of request_inputs: the recognised delivery classes
RequestKinds == {"Route", "Json", "Query", "Form", "File"}

\* A binding instance: its class, its default and its constraints (a set of
\* <<constraint name, bound>> pairs; the bound of a blacklist is its text).  A parameter declared without a binding
\* has inspect's empty marker as default, whose class is `type`.
Binding(cls, default, c) == [cls |-> cls, default |-> default, c |-> c]
NoBinding == Binding("type", NoneV, {})

DigitVal(ch) ==
  CASE ch = "0" -> 0 [] ch = "1" -> 1 [] ch = "2" -> 2 [] ch = "3" -> 3
    [] ch = "4" -> 4 [] ch = "5" -> 5 [] ch = "6" -> 6 [] ch = "7" -> 7
    [] ch = "8" -> 8 [] ch = "9" -> 9 [] OTHER -> -1

\* int(text) for unsigned decimal text: -1 when the text is no numeral
RECURSIVE ParseInt(_, _, _)
ParseInt(cs, i, acc) ==
  IF Len(cs) = 0 THEN -1
  ELSE IF i > Len(cs) THEN acc
  ELSE IF DigitVal(cs[i]) < 0 THEN -1
  ELSE ParseInt(cs, i + 1, acc * 10 + DigitVal(cs[i]))

TrueText == {<<"t", "r", "u", "e">>, <<"1">>}
FalseText == {<<"f", "a", "l", "s", "e">>, <<"0">>}

\* Coercion of a text into the first candidate type, in declaration order,
\* that accepts it; the text itself when none does.
RECURSIVE CoerceText(_, _, _)
CoerceText(x, types, i) ==
  IF i > Len(types) THEN x
  ELSE IF types[i] = Plain("int") /\ ParseInt(x.v, 1, 0) >= 0
       THEN IntV(ParseInt(x.v, 1, 0))
  ELSE IF types[i] = Plain("float") /\ ParseInt(x.v, 1, 0) >= 0
       THEN FloatV(ParseInt(x.v, 1, 0))
  ELSE IF types[i] = Plain("bool") /\ x.v \in TrueText THEN BoolV(TRUE)
  ELSE IF types[i] = Plain("bool") /\ x.v \in FalseText THEN BoolV(FALSE)
  ELSE CoerceText(x, types, i + 1)

ConvertOne(x, types) ==
  IF TypeIn(x, types) THEN x
  ELSE IF x.t = "str" THEN CoerceText(x, types, 1)
  ELSE x

\* binding.convert(value, candidate types): best effort, never raises,
\* unchanged on already correctly typed input; a list is converted per element
convert(value, types) ==
  IF value.t = "list"
  THEN ListV([i \in DOMAIN value.v |-> ConvertOne(value.v[i], types)])
  ELSE ConvertOne(value, types)

\* binding.validate(value): "" when the constraints hold, else the message
\* of the ValueError it raises
binding_validate(d, value) ==
  IF value.t = "int" /\ \E c \in d.c : c[1] = "min_int" /\ value.v < c[2]
  THEN "min_int"
  ELSE IF value.t = "int" /\ \E c \in d.c : c[1] = "max_int" /\ value.v > c[2]
  THEN "max_int"
  ELSE IF value.t = "str" /\ \E c \in d.c : c[1] = "min_str_length" /\ Len(value.v) < c[2]
  THEN "min_str_length"
  ELSE IF value.t = "str" /\ \E c \in d.c :
            c[1] = "blacklist" /\ \E j \in DOMAIN value.v : value.v[j] \in Range(c[2])
  THEN "blacklist"
  ELSE IF value.t = "list" /\ \E c \in d.c : c[1] = "min_list_length" /\ Len(value.v) < c[2]
  THEN "min_list_length"
  ELSE ""

(* ------------------------------ errors --------------------------------- *)
Err(cls, msg, name, ty, src) ==
  [cls |-> cls, args |-> [msg |-> msg, name |-> name, ty |-> ty, src |-> src]]
NoErr == Err("", "", "", NoAnn, "")

InvalidParameterTypeError(d) == Err("InvalidParameterTypeError", "", "", NoAnn, d.cls)
MissingInputError(name, cls) == Err("MissingInputError", "", name, NoAnn, cls)
ValidationError(msg, name, ty) == Err("ValidationError", msg, name, ty, "")
NotIterableError == Err("TypeError", "object is not iterable", "", NoAnn, "")

(* ------------------- ValidateParameters.validate ----------------------- *)
\* dict.get(name): None for a missing key and for a key mapped to None
Get(m, name) == IF m[name].t = "missing" THEN NoneV ELSE m[name]

\* Optionals are Unions with a NoneType
IsOptional(a) == HasArgs(a) /\ NoneT \in Range(a.args)

\* (mutation) an optional parameter is treated as required
ResolveInput_required(p, all) ==
  LET d == p.default
      got == Get(all[d.cls], p.name)
  IN  IF got.t # "NoneType" THEN [st |-> "value", v |-> got]
      ELSE IF d.default.t # "NoneType" THEN [st |-> "value", v |-> d.default]
      ELSE [st |-> "missing", v |-> got]

\* (mutation) optionality is consulted before the default
ResolveInput_optional_first(p, all) ==
  LET d == p.default
      got == Get(all[d.cls], p.name)
  IN  IF got.t # "NoneType" THEN [st |-> "value", v |-> got]
      ELSE IF IsOptional(p.annotation) THEN [st |-> "return", v |-> got]
      ELSE IF d.default.t # "NoneType" THEN [st |-> "value", v |-> d.default]
      ELSE [st |-> "missing", v |-> got]

\* Presence, default and optionality
ResolveInput(p, all) ==
  LET d == p.default
      got == Get(all[d.cls], p.name)
  IN  IF got.t # "NoneType" THEN [st |-> "value", v |-> got]
      ELSE IF d.default.t # "NoneType" THEN [st |-> "value", v |-> d.default]
      ELSE IF IsOptional(p.annotation) THEN [st |-> "return", v |-> got]
      ELSE [st |-> "missing", v |-> got]

\* for inp in x: a list yields its elements, a str its characters
Iterable(x) == x.t \in {"list", "str"}
Items(x) == IF x.t = "list" THEN x.v ELSE [i \in DOMAIN x.v |-> StrV(<<x.v[i]>>)]
AllTypesIn(x, types) == \A i \in DOMAIN Items(x) : TypeIn(Items(x)[i], types)

\* The loop over the members of a union: every List member that the raw list
\* satisfies replaces the descriptor (the last such member stays)
RECURSIVE Elect(_, _, _, _)
Elect(members, i, user_input, acc) ==
  IF i > Len(members) THEN acc
  ELSE LET exp_type == members[i]
           hit == /\ TypeStrPrefix(exp_type) = "typing.List"
                  /\ user_input.t = "list"
                  /\ AllTypesIn(user_input, exp_type.args)
       IN  Elect(members, i + 1, user_input,
                 IF hit THEN [ann |-> exp_type, types |-> exp_type.args,
                              prefix |-> TypeStrPrefix(exp_type),
                              user_inputs |-> user_input]
                        ELSE acc)

\* Prepare expected type checks for unions, lists and plain types
Normalize(ann, user_input) ==
  IF TypeStrPrefix(ann) = "typing.Union"
  THEN Elect(ann.args, 1, user_input,
             [ann |-> ann, types |-> ann.args, prefix |-> TypeStrPrefix(ann),
              user_inputs |-> ListV(<<user_input>>)])
  ELSE IF TypeStrPrefix(ann) = "typing.List"
  THEN [ann |-> ann, types |-> ann.args, prefix |-> TypeStrPrefix(ann),
        user_inputs |-> user_input]
  ELSE [ann |-> ann, types |-> <<ann>>, prefix |-> TypeStrPrefix(ann),
        user_inputs |-> ListV(<<user_input>>)]

\* (mutation) the type check is skipped
validation_success_skipped(n, converted) == TRUE

\* Validate that user type(s) match expected type(s), and that if lists are
\* required, lists are given.  user_inputs was bound before the conversion.
validation_success(n, converted) ==
  /\ AllTypesIn(n.user_inputs, n.types)
  /\ (n.prefix = "typing.List" => converted.t = "list")

\* The result of one call of validate: how it ended, the value returned or
\* the error raised, the binding methods and checks it went through, and the
\* descriptor it normalised to.
Result(outcome, value, err, stages, n, raw) ==
  [outcome |-> outcome, value |-> value, err |-> err, stages |-> stages,
   ann |-> n.ann, types |-> n.types, prefix |-> n.prefix, raw |-> raw]
NoNorm == [ann |-> NoAnn, types |-> <<>>, prefix |-> "", user_inputs |-> NoneV]

validate(p, all) ==
  LET d == p.default
      r == ResolveInput(p, all)
      n == Normalize(p.annotation, r.v)
      cv == convert(r.v, n.types)
      sem == binding_validate(d, cv)
  IN  IF d.cls \notin DOMAIN all
      THEN Result("Failed", NoneV, InvalidParameterTypeError(d), <<>>, NoNorm, Missing)
      ELSE IF r.st = "return"
      THEN Result("Absent", r.v, NoErr, <<>>, NoNorm, r.v)
      ELSE IF r.st = "missing"
      THEN Result("Failed", NoneV, MissingInputError(p.name, d.cls), <<>>, NoNorm, r.v)
      ELSE IF TypeStrPrefix(p.annotation) = "typing.Any"
      THEN Result("Coerced", r.v, NoErr, <<>>, NoNorm, r.v)
      ELSE IF ~Iterable(n.user_inputs)
      THEN Result("Failed", NoneV, NotIterableError, <<"convert">>, n, r.v)
      ELSE IF ~validation_success(n, cv)
      THEN Result("Failed", NoneV,
                  ValidationError("must be type", p.name, p.annotation),
                  <<"convert", "conformance">>, n, r.v)
      ELSE IF sem # ""
      THEN Result("Failed", NoneV, ValidationError(sem, p.name, n.ann),
                  <<"convert", "conformance", "validate">>, n, r.v)
      ELSE Result("Coerced", cv, NoErr,
                  <<"convert", "conformance", "validate">>, n, r.v)

(* -------------------- handlers and requests (bounded) ------------------ *)
Param(name, ann, d) == [name |-> name, annotation |-> ann, default |-> d]

\* The parameters of `hello`, in declaration order
hello ==
  << Param("id", Plain("int"), Binding("Route", NoneV, {})),
     Param("username", Plain("str"),
           Binding("Json", NoneV, {<<"min_str_length", 5>>,
                                   <<"blacklist", <<"<", ">">>>>})),
     Param("age", Plain("int"),
           Binding("Json", NoneV, {<<"min_int", 18>>, <<"max_int", 99>>})),
     Param("nicknames", ListOf(<<Plain("str")>>), Binding("Json", NoneV, {})),
     Param("password_expiry", UnionOf(<<Plain("int"), Plain("float")>>),
           Binding("Json", NoneV, {})),
     Param("is_admin", Plain("bool"), Binding("Query", BoolV(FALSE), {})) >>

\* Parameters of other handlers the decorator may wrap: the remaining forms
\* of declaration (optional, any, union with list members, defaults, no
\* binding)
Others ==
  << Param("tags", UnionOf(<<ListOf(<<Plain("str")>>), Plain("int")>>),
           Binding("Json", NoneV, {<<"min_list_length", 1>>})),
     Param("note", OptionalOf(Plain("int")), Binding("Json", NoneV, {})),
     Param("extra", AnyT, Binding("Json", NoneV, {})),
     Param("count", Plain("int"), Binding("Query", NoneV, {})),
     Param("flag", OptionalOf(Plain("bool")), Binding("Query", BoolV(FALSE), {})),
     Param("bad", Plain("int"), NoBinding),
     Param("ids", UnionOf(<<ListOf(<<Plain("str")>>), ListOf(<<Plain("int")>>), NoneT>>),
           Binding("Json", NoneV, {<<"min_list_length", 1>>})),
     Param("aliases", OptionalOf(ListOf(<<Plain("str")>>)), Binding("Json", NoneV, {})),
     Param("limit", Plain("int"), Binding("Json", IntV(0), {<<"max_int", 99>>})) >>

\* Every declaration a wrapped handler is built from
Declared == hello \o Others

\* Handler signatures: up to MaxParams consecutive declarations
Window(s, n) == [j \in 1..n |-> Declared[((s + j - 2) % Len(Declared)) + 1]]
Handlers == {Window(s, n) : s \in DOMAIN Declared, n \in 1..MaxParams}

Elems == {StrV(<<"a", "b">>), IntV(15)}
Lists == {ListV(xs) : xs \in UNION {[1..n -> Elems] : n \in 0..MaxListLen}}
JsonVals == {Missing, NoneV, IntV(15), IntV(20), BoolV(TRUE),
             StrV(<<"a", "b">>), StrV(<<"a", "l", "i", "c", "e">>),
             StrV(<<"a", "<", "b", ">", "c">>)} \cup Lists
QueryVals == {Missing, StrV(<<"t", "r", "u", "e">>), StrV(<<"7">>), StrV(<<"a", "b">>)}
RouteVals == {Missing, IntV(7), StrV(<<"a", "b">>)}
RawFor(p) ==
  CASE p.default.cls = "Json" -> JsonVals
    [] p.default.cls = "Query" -> QueryVals
    [] p.default.cls = "Route" -> RouteVals
    [] OTHER -> {Missing}
AllRaw == JsonVals \cup QueryVals \cup RouteVals

\* What a client may send for signature sig: one raw value (or nothing) per
\* parameter, delivered through the source the parameter is bound to.  A map
\* holds Missing for a name its source does not carry.
Sent(sig) == {r \in [DOMAIN sig -> AllRaw] : \A j \in DOMAIN sig : r[j] \in RawFor(sig[j])}
NamesOf(sig) == {sig[j].name : j \in DOMAIN sig}
SourceMap(sig, r, cls) ==
  [nm \in NamesOf(sig) |->
     IF \E j \in DOMAIN sig : sig[j].name = nm /\ sig[j].default.cls = cls
     THEN r[CHOOSE j \in DOMAIN sig : sig[j].name = nm]
     ELSE Missing]
EmptyMap(sig) == [nm \in NamesOf(sig) |-> Missing]

(* ------------------------------ the state ------------------------------ *)
VARIABLES f, custom_error_handler, pc, kwargs, request_inputs, i,
          validated_inputs, results, response, f_calls, handler_calls

vars == <<f, custom_error_handler, pc, kwargs, request_inputs, i,
          validated_inputs, results, response, f_calls, handler_calls>>

NoResponse == [by |-> "none", body |-> NoErr, status |-> 0]

\* The decorator has been constructed and applied to f; no request yet
Init ==
  /\ f \in Handlers
  /\ custom_error_handler \in BOOLEAN
  /\ pc = "idle"
  /\ kwargs = EmptyMap(f)
  /\ request_inputs = [cls \in RequestKinds |-> EmptyMap(f)]
  /\ i = 0
  /\ validated_inputs = EmptyMap(f)
  /\ results = <<>>
  /\ response = NoResponse
  /\ f_calls = <<>>
  /\ handler_calls = <<>>

\* The custom error handler of the module: the error's class name, its args
\* and its text, with status 400
handler(err) ==
  [by |-> "custom",
   body |-> [error_name |-> err.cls, error_parameters |-> err.args,
             error_message |-> err.args],
   status |-> 400]

\* (mutation) the default response loses the error's message
DefaultResponse_generic(err) == [by |-> "default", body |-> [error |-> NoErr.args], status |-> 400]

\* The default error response: {"error": str(e)}, 400
DefaultResponse(err) == [by |-> "default", body |-> [error |-> err.args], status |-> 400]

\* nested_func(**kwargs), steps 1 and 2: the framework calls the wrapped
\* handler with the route variables; the request bundle is assembled.  With
\* form_fields the request also carries a form field for every parameter name.
nested_func(r, form_fields) ==
  /\ pc = "idle"
  /\ kwargs' = SourceMap(f, r, "Route")
  /\ request_inputs' =
       [cls \in RequestKinds |->
          IF cls = "Route" THEN SourceMap(f, r, "Route")
          ELSE IF cls = "Form" /\ form_fields
          THEN [nm \in NamesOf(f) |-> StrV(<<"a", "b">>)]
          ELSE SourceMap(f, r, cls)]
  /\ i' = 1
  /\ pc' = "loop"
  /\ UNCHANGED <<f, custom_error_handler, validated_inputs, results, response,
                 f_calls, handler_calls>>

Current == validate(f[i], request_inputs)
InLoop == pc = "loop" /\ i <= Len(f)

\* validate returned: the value is recorded and the loop goes on
Validated ==
  /\ InLoop
  /\ Current.outcome # "Failed"
  /\ validated_inputs' = [validated_inputs EXCEPT ![f[i].name] = Current.value]
  /\ results' = Append(results, Current)
  /\ i' = i + 1
  /\ UNCHANGED <<f, custom_error_handler, pc, kwargs, request_inputs, response,
                 f_calls, handler_calls>>

\* (mutation) the error is swallowed and the loop goes on
DefaultError_swallowed ==
  /\ InLoop
  /\ ~custom_error_handler
  /\ Current.outcome = "Failed"
  /\ Current.err.cls \in {"MissingInputError", "ValidationError"}
  /\ results' = Append(results, Current)
  /\ i' = i + 1
  /\ UNCHANGED <<f, custom_error_handler, pc, kwargs, request_inputs, response,
                 validated_inputs, f_calls, handler_calls>>

\* No custom handler: MissingInputError and ValidationError become the
\* default 400 response
DefaultError ==
  /\ InLoop
  /\ ~custom_error_handler
  /\ Current.outcome = "Failed"
  /\ Current.err.cls \in {"MissingInputError", "ValidationError"}
  /\ response' = DefaultResponse(Current.err)
  /\ results' = Append(results, Current)
  /\ pc' = "returned"
  /\ UNCHANGED <<f, custom_error_handler, kwargs, request_inputs, i,
                 validated_inputs, f_calls, handler_calls>>

\* No custom handler: any other exception leaves nested_func uncaught
Uncaught ==
  /\ InLoop
  /\ ~custom_error_handler
  /\ Current.outcome = "Failed"
  /\ Current.err.cls \notin {"MissingInputError", "ValidationError"}
  /\ response' = [by |-> "exception", body |-> Current.err, status |-> 0]
  /\ results' = Append(results, Current)
  /\ pc' = "raised"
  /\ UNCHANGED <<f, custom_error_handler, kwargs, request_inputs, i,
                 validated_inputs, f_calls, handler_calls>>

\* Custom handler: every exception is passed to it and its result returned
CustomError ==
  /\ InLoop
  /\ custom_error_handler
  /\ Current.outcome = "Failed"
  /\ handler_calls' = Append(handler_calls, Current.err)
  /\ response' = handler(Current.err)
  /\ results' = Append(results, Current)
  /\ pc' = "returned"
  /\ UNCHANGED <<f, custom_error_handler, kwargs, request_inputs, i,
                 validated_inputs, f_calls>>

\* return f(**kwargs)
CallHandler ==
  /\ pc = "loop"
  /\ i > Len(f)
  /\ f_calls' = Append(f_calls, kwargs)
  /\ response' = [by |-> "f", body |-> NoErr, status |-> 200]
  /\ pc' = "returned"
  /\ UNCHANGED <<f, custom_error_handler, kwargs, request_inputs, i,
                 validated_inputs, results, handler_calls>>

Next ==
  \/ (pc = "idle" /\ \E r \in Sent(f), form_fields \in BOOLEAN : nested_func(r, form_fields))
  \/ Validated
  \/ DefaultError
  \/ Uncaught
  \/ CustomError
  \/ CallHandler

Spec == Init /\ [][Next]_vars

(* ============================ properties =============================== *)
Finished == pc \in {"returned", "raised"}
HandlerInvoked == f_calls # <<>>

\* results[k] is the outcome of the k-th call of validate, for f[k]
IsTypeMismatch(r) ==
  r.outcome = "Failed" /\ r.err.cls = "ValidationError" /\ r.err.args.msg = "must be type"
IsSemanticFailure(r) ==
  r.outcome = "Failed" /\ r.err.cls = "ValidationError" /\ r.err.args.msg # "must be type"

\* The indices of the parameters whose validation fails for this request
Failing == {k \in DOMAIN f : validate(f[k], request_inputs).outcome = "Failed"}
FirstFailing == CHOOSE k \in Failing : \A j \in Failing : k <= j

\* The error a finished session reports
ReportedArgs ==
  CASE response.by = "default" -> response.body.error
    [] response.by = "custom" -> response.body.error_parameters
    [] response.by = "exception" -> response.body.args
    [] OTHER -> NoErr.args

\* C1: parameters are validated in declaration order and the session is
\* fail-fast: when parameter k is the first whose validation fails, exactly
\* the parameters 1..k were validated, the reported error is the one raised
\* for k and the handler is never invoked; the handler is invoked only after
\* every parameter validated successfully.
C1_FailFastInOrder ==
  /\ \A k \in DOMAIN results : results[k] = validate(f[k], request_inputs)
  /\ (pc = "loop" => Len(results) = i - 1)
  /\ (Finished /\ Failing # {} =>
        /\ Len(results) = FirstFailing
        /\ ReportedArgs = validate(f[FirstFailing], request_inputs).err.args
        /\ ~HandlerInvoked)
  /\ (Failing # {} => ~HandlerInvoked)
  /\ (HandlerInvoked =>
        /\ Len(results) = Len(f)
        /\ \A k \in DOMAIN results : results[k].outcome # "Failed")

\* a session of two parameters that stopped at the first one
C1_Witness ==
  /\ pc = "returned"
  /\ Len(f) = 2
  /\ Len(results) = 1
  /\ results[1].outcome = "Failed"
  /\ ~HandlerInvoked

\* A value conforms to a normalised descriptor: a list of candidates when the
\* descriptor is list-shaped, a single candidate otherwise
ConformsTo(value, r) ==
  IF r.prefix = "typing.List"
  THEN value.t = "list" /\ \A j \in DOMAIN value.v : Plain(value.v[j].t) \in Range(r.types)
  ELSE Plain(value.t) \in Range(r.types)

\* C2: whenever the handler is invoked, every parameter that is not declared
\* `any` and did not resolve to Absent(null) has a returned value whose
\* runtime type (each element's, for a list-shaped descriptor) is in the
\* candidate set, and that is a list when the descriptor is list-shaped.
C2_ReturnedValuesConform ==
  HandlerInvoked =>
    \A k \in DOMAIN f :
      (f[k].annotation.k # "any" /\ results[k].outcome # "Absent") =>
         /\ results[k].outcome = "Coerced"
         /\ validated_inputs[f[k].name] = results[k].value
         /\ ConformsTo(results[k].value, results[k])

\* the handler ran after a non-empty list was validated
C2_Witness ==
  /\ HandlerInvoked
  /\ \E k \in DOMAIN f :
       /\ results[k].prefix = "typing.List"
       /\ results[k].outcome = "Coerced"
       /\ Len(results[k].value.v) > 0

\* C3 (as claimed): when convert turns a raw value whose type is outside the
\* candidate set into one that conforms, validate raises no TypeMismatch and
\* ends with Coerced(converted value) unless a constraint rejects it.
C3_ConformanceOnConverted ==
  \A k \in DOMAIN results :
    LET r == results[k]
        cv == convert(r.raw, r.types)
    IN  (/\ r.stages # <<>>
         /\ ~ConformsTo(r.raw, r)
         /\ ConformsTo(cv, r)) =>
           /\ ~IsTypeMismatch(r)
           /\ (r.outcome = "Coerced" => r.value = cv)

\* The raw value is absent from the bound source: the name is missing or
\* mapped to null
RawAbsent(k) ==
  /\ f[k].default.cls \in RequestKinds
  /\ request_inputs[f[k].default.cls][f[k].name].t \in {"missing", "NoneType"}

DeclaredOptional(a) == a.k = "union" /\ NoneT \in Range(a.args)

\* C4: an Optional parameter absent from its source, with no default, yields
\* the null marker, the session goes on, and neither convert nor the
\* conformance check nor the binding's validate is invoked for it.
C4_OptionalAbsent ==
  \A k \in DOMAIN results :
    (/\ DeclaredOptional(f[k].annotation)
     /\ RawAbsent(k)
     /\ f[k].default.default = NoneV) =>
       /\ results[k].outcome = "Absent"
       /\ results[k].value = NoneV
       /\ results[k].stages = <<>>
       /\ validated_inputs[f[k].name] = NoneV
       /\ pc # "raised"
       /\ (Finished /\ Len(results) = k => HandlerInvoked)

\* the handler ran after an optional parameter resolved to null
C4_Witness ==
  /\ HandlerInvoked
  /\ \E k \in DOMAIN results :
       /\ DeclaredOptional(f[k].annotation)
       /\ RawAbsent(k)
       /\ results[k].outcome = "Absent"

\* C5 (as claimed): for a parameter declared List[T], a present raw value
\* that is no list and that convert leaves a non-list fails with
\* TypeMismatch, with no other error, and the binding's validate is not
\* invoked.
C5_NonSequenceIsTypeMismatch ==
  \A k \in DOMAIN results :
    LET r == results[k]
    IN  (/\ f[k].annotation.k = "list"
         /\ ~RawAbsent(k)
         /\ r.raw.t # "list"
         /\ convert(r.raw, f[k].annotation.args).t # "list") =>
           /\ IsTypeMismatch(r)
           /\ \A j \in DOMAIN r.stages : r.stages[j] # "validate"

\* C6: a failed session's result depends only on whether a custom handler
\* is configured: without one, MissingInput, TypeMismatch and
\* SemanticValidationFailure give ({"error": message}, 400); with one, every
\* kind of failure is passed to it exactly once and its result is returned;
\* the wrapped handler is not invoked in either case.
C6_FailureBoundary ==
  (Finished /\ results # <<>> /\ results[Len(results)].outcome = "Failed") =>
    LET e == results[Len(results)].err
    IN  /\ ~HandlerInvoked
        /\ (~custom_error_handler /\ e.cls \in {"MissingInputError", "ValidationError"} =>
              /\ response.by = "default"
              /\ response.status = 400
              /\ response.body.error = e.args
              /\ handler_calls = <<>>)
        /\ (custom_error_handler =>
              /\ handler_calls = <<e>>
              /\ response.by = "custom"
              /\ response.status = 400
              /\ response.body.error_name = e.cls
              /\ response.body.error_parameters = e.args
              /\ response.body.error_message = e.args)

\* the custom handler received a misconfigured-source error
C6_Witness ==
  /\ pc = "returned"
  /\ custom_error_handler
  /\ Len(handler_calls) = 1
  /\ handler_calls[1].cls = "InvalidParameterTypeError"

\* C7 (as claimed): on success the handler is invoked exactly once; the
\* route-bound arguments reach it unchanged and, for every parameter bound to
\* another source, the argument it receives is the engine's coerced value.
C7_HandlerArguments ==
  HandlerInvoked =>
    /\ Len(f_calls) = 1
    /\ \A k \in DOMAIN f :
         IF f[k].default.cls = "Route"
         THEN f_calls[1][f[k].name] = kwargs[f[k].name]
         ELSE f_calls[1][f[k].name] = validated_inputs[f[k].name]

\* What validate returns when the client supplies the default itself
Supplied(k) ==
  validate(f[k], [request_inputs EXCEPT ![f[k].default.cls][f[k].name] = f[k].default.default])

\* C8: for a value absent from its source: a non-null default (falsy ones
\* included) becomes the raw value and is processed as a supplied value is,
\* also for an optional type; otherwise an optional type gives Absent(null);
\* otherwise validate fails with MissingInput naming the parameter and its
\* source.  `is_admin: bool = Query(False)`, omitted, resolves to False.
C8_AbsencePrecedence ==
  \A k \in DOMAIN results :
    RawAbsent(k) =>
      LET r == results[k]
          d == f[k].default.default
      IN  /\ IF d.t # "NoneType"
             THEN /\ r.raw = d
                  /\ r.outcome # "Absent"
                  /\ r.err.cls # "MissingInputError"
                  /\ r = Supplied(k)
                  /\ (f[k].annotation.k # "any" =>
                        Len(r.stages) >= 2 /\ r.stages[1] = "convert"
                                           /\ r.stages[2] = "conformance")
             ELSE IF DeclaredOptional(f[k].annotation)
             THEN r.outcome = "Absent" /\ r.value = NoneV
             ELSE /\ r.outcome = "Failed"
                  /\ r.err.cls = "MissingInputError"
                  /\ r.err.args.name = f[k].name
                  /\ r.err.args.src = f[k].default.cls
          /\ (f[k].name = "is_admin" =>
                /\ r.outcome = "Coerced"
                /\ r.value = BoolV(FALSE)
                /\ r.stages = <<"convert", "conformance", "validate">>)

\* is_admin was omitted from the query string and resolved to False
C8_Witness ==
  \E k \in DOMAIN results :
    /\ f[k].name = "is_admin"
    /\ RawAbsent(k)
    /\ results[k].value = BoolV(FALSE)
    /\ results[k].outcome = "Coerced"

\* The List members of a union that a raw value satisfies
Matching(a, raw) ==
  {m \in Range(a.args) :
     /\ m.k = "list"
     /\ raw.t = "list"
     /\ \A j \in DOMAIN raw.v : Plain(raw.v[j].t) \in Range(m.args)}

\* C9 (as claimed): for a union with a List member, a raw list whose every
\* element has one of that member's element types collapses the descriptor
\* to that member (candidates = its element types, the value must be a list);
\* any other raw value is checked as a single value against the union's
\* members.
C9_UnionListElection ==
  \A k \in DOMAIN results :
    LET r == results[k]
        a == f[k].annotation
    IN  (/\ a.k = "union"
         /\ \E m \in Range(a.args) : m.k = "list"
         /\ r.stages # <<>>) =>
           IF Matching(a, r.raw) # {}
           THEN /\ r.ann \in Matching(a, r.raw)
                /\ r.types = r.ann.args
                /\ r.prefix = "typing.List"
                /\ ~IsTypeMismatch(r)
                /\ (r.outcome = "Coerced" => ConformsTo(r.value, r))
           ELSE /\ r.ann = a
                /\ r.types = a.args
                /\ (IsTypeMismatch(r) <=> Plain(r.raw.t) \notin Range(a.args))

\* C10 (as claimed): every ValidationError raised for a parameter carries
\* the parameter's name and its declared type, whatever the normalisation.
C10_ErrorsCarryDeclaredType ==
  \A k \in DOMAIN results :
    results[k].err.cls = "ValidationError" =>
      /\ results[k].err.args.name = f[k].name
      /\ results[k].err.args.ty = f[k].annotation

=============================================================================
